---- MODULE Spec2Model ----
(***************************************************************************)
(* Model of the auto-reply engine of BilibiliAutoCC:                       *)
(*   core/message_manager.py  MessageManager (listener lifecycle, worker   *)
(*                            loop, rule matcher)                          *)
(*   utils/database.py        AutoReplyDatabase (rules, config, stats)     *)
(***************************************************************************)
EXTENDS Integers, Sequences, FiniteSets, TLC

VARIABLES
    auto_reply_enabled,   \* MessageManager.auto_reply_enabled
    stop_listening,       \* MessageManager.stop_listening
    listening_thread,     \* MessageManager.listening_thread (0 = None)
    daily_limit,          \* MessageManager.daily_limit
    scan_interval,        \* MessageManager.scan_interval
    reply_delay_min,      \* MessageManager.reply_delay_min
    reply_delay_max,      \* MessageManager.reply_delay_max
    today_reply_count,    \* MessageManager.today_reply_count
    processed_messages,   \* MessageManager.processed_messages
    replied_messages,     \* MessageManager.replied_messages
    db_rules,             \* table auto_reply_rules (sequence of rows, by id)
    db_config,            \* table account_configs, row of this account
    db_stats,             \* table auto_reply_stats, row of this account
    now,                  \* the wall clock, time.time(), in seconds
    worker,               \* the threads running _auto_reply_worker
    ctl,                  \* the caller of start/stop_auto_reply_listener
    sent,                 \* every send_message call made by a worker
    hist,                 \* per message: what the workers did with it
    mres,                 \* the last call of match_auto_reply and its result
    db_logs,              \* table auto_reply_logs, rows of this account
    count_date,           \* the date today_reply_count was computed on
    sink                  \* MessageManager.gui_log_callback and its calls

engineVars == <<auto_reply_enabled, stop_listening, listening_thread>>
confVars   == <<daily_limit, scan_interval, reply_delay_min, reply_delay_max>>
dedupVars  == <<processed_messages, replied_messages>>
dbVars     == <<db_rules, db_config, db_stats>>
statVars   == <<db_logs, count_date>>
vars == <<auto_reply_enabled, stop_listening, listening_thread, daily_limit,
          scan_interval, reply_delay_min, reply_delay_max, today_reply_count,
          processed_messages, replied_messages, db_rules, db_config, db_stats,
          now, worker, ctl, sent, hist, mres, db_logs, count_date, sink>>

----------------------------------------------------------------------------
(* Bounds of the model *)

MaxThreads == 2        \* worker threads ever spawned
MaxPolls   == 2        \* session-list fetches made by the worker threads
MaxRules   == 3        \* rows of auto_reply_rules in the matcher runs
Now0       == 172796   \* the clock at construction (4s before a midnight)

NoRow == [none |-> TRUE]
Range(s) == {s[i] : i \in 1..Len(s)}
Min2(a, b) == IF a < b THEN a ELSE b
The(S) == CHOOSE x \in S : TRUE     \* the member of a singleton

----------------------------------------------------------------------------
(* Strings are sequences of characters; str.lower, str.strip, `in`,        *)
(* str.startswith and str.endswith as Python computes them.                *)

LowerChar(c) ==
    CASE c = "A" -> "a" [] c = "C" -> "c" [] c = "T" -> "t"
      [] c = "H" -> "h" [] c = "I" -> "i" [] OTHER -> c

Lower(s) == [i \in 1..Len(s) |-> LowerChar(s[i])]

IsSpace(c) == c = " "

RECURSIVE LStrip(_)
LStrip(s) == IF s # <<>> /\ IsSpace(Head(s)) THEN LStrip(Tail(s)) ELSE s

RECURSIVE RStrip(_)
RStrip(s) ==
    IF s # <<>> /\ IsSpace(s[Len(s)]) THEN RStrip(SubSeq(s, 1, Len(s) - 1))
    ELSE s

Strip(s) == RStrip(LStrip(s))

StartsWith(s, k) == Len(k) <= Len(s) /\ SubSeq(s, 1, Len(k)) = k

EndsWith(s, k) ==
    Len(k) <= Len(s) /\ SubSeq(s, Len(s) - Len(k) + 1, Len(s)) = k

\* k in s
Contains(k, s) ==
    \E i \in 0..(Len(s) - Len(k)) : SubSeq(s, i + 1, i + Len(k)) = k

----------------------------------------------------------------------------
(* utils/database.py: the rule table.  A row of auto_reply_rules is        *)
(*   [id, account_uid, keyword, reply_content, match_type, case_sensitive, *)
(*    enabled, priority, created_time].                                    *)
(* created_time is time.time() at the INSERT; the rows of one table are    *)
(* inserted one after the other, so it grows with the id.                  *)

AccountUid == "acct"       \* MessageManager.account_uid
OtherUid   == "other"      \* another account stored in the same database

\* ORDER BY priority DESC, created_time ASC: does row a come before row b
SqlBefore(a, b) ==
    \/ a.priority > b.priority
    \/ a.priority = b.priority /\ a.created_time < b.created_time

\* The rows in the order of ORDER BY: a row is placed after the rows that
\* come before it, and after the rows of equal rank stored ahead of it
SqlOrderBy(rows) ==
    LET n == Len(rows)
        Rank(i) == Cardinality({j \in 1..n :
                       \/ SqlBefore(rows[j], rows[i])
                       \/ ~SqlBefore(rows[i], rows[j]) /\ j < i})
    IN  [p \in 1..n |-> rows[CHOOSE i \in 1..n : Rank(i) = p - 1]]

\* The filter without "AND enabled = 1"
SqlWhereAnyStatus(r, account_uid, enabled_only) == r.account_uid = account_uid

\* WHERE account_uid = ? [AND enabled = 1]
SqlWhere(r, account_uid, enabled_only) ==
    r.account_uid = account_uid /\ (enabled_only => r.enabled)

\* AutoReplyDatabase.get_auto_reply_rules
get_auto_reply_rules(table, account_uid, enabled_only) ==
    SqlOrderBy(SelectSeq(table,
                         LAMBDA r : SqlWhere(r, account_uid, enabled_only)))

\* AutoReplyDatabase.save_auto_reply_rule with rule_id = None (INSERT)
save_auto_reply_rule(table, account_uid, tmpl, enabled) ==
    Append(table,
           [id |-> Len(table) + 1, account_uid |-> account_uid,
            keyword |-> tmpl.keyword, reply_content |-> tmpl.reply_content,
            match_type |-> tmpl.match_type,
            case_sensitive |-> tmpl.case_sensitive, enabled |-> enabled,
            priority |-> tmpl.priority, created_time |-> Len(table) + 1])

\* AutoReplyDatabase.delete_auto_reply_rule: DELETE ... WHERE id = ? AND
\* account_uid = ?
delete_auto_reply_rule(table, account_uid, rule_id) ==
    SelectSeq(table, LAMBDA r : ~(r.id = rule_id /\ r.account_uid = account_uid))

\* The UPDATE with "WHERE id = ?" alone
ToggleAnyAccount(table, account_uid, rule_id) ==
    [i \in 1..Len(table) |->
        IF table[i].id = rule_id
        THEN [table[i] EXCEPT !.enabled = ~table[i].enabled]
        ELSE table[i]]

\* AutoReplyDatabase.toggle_rule_status: SET enabled = NOT enabled
toggle_rule_status(table, account_uid, rule_id) ==
    [i \in 1..Len(table) |->
        IF table[i].id = rule_id /\ table[i].account_uid = account_uid
        THEN [table[i] EXCEPT !.enabled = ~table[i].enabled]
        ELSE table[i]]

----------------------------------------------------------------------------
(* core/message_manager.py: MessageManager.match_auto_reply                *)

NoMatch == [none |-> TRUE]     \* the function returns None

\* rules.sort(key=priority, reverse=True): a stable sort, rules of equal
\* priority keep the order the query returned them in
SortByPriority(rows) ==
    LET n == Len(rows)
        Rank(i) == Cardinality({j \in 1..n :
                       \/ rows[j].priority > rows[i].priority
                       \/ rows[j].priority = rows[i].priority /\ j < i})
    IN  [p \in 1..n |-> rows[CHOOSE i \in 1..n : Rank(i) = p - 1]]

\* re.compile raises on an unbalanced parenthesis; the patterns of the
\* model are otherwise literal
PatternRaises(k) == "(" \in Range(k)

\* The rule evaluated with case_sensitive ignored: text and keyword are
\* always lower-cased
RuleMatchedFolding(rule, message_text) ==
    \E text_to_match \in {Lower(message_text)} :
    \E keyword_to_match \in {Lower(Strip(rule.keyword))} :
        CASE rule.match_type = "exact" ->
               Strip(text_to_match) = Strip(keyword_to_match)
          [] rule.match_type = "contains" ->
               Contains(keyword_to_match, text_to_match)
          [] rule.match_type = "startswith" ->
               StartsWith(text_to_match, keyword_to_match)
          [] rule.match_type = "endswith" ->
               EndsWith(text_to_match, keyword_to_match)
          [] rule.match_type = "regex" ->
               Contains(keyword_to_match, text_to_match)
          [] OTHER -> FALSE

\* The body of the per-rule try block (lines 337-372): does the rule match,
\* or does evaluating it raise.  The match kinds of the model are exact,
\* contains, startswith, endswith and regex.
RuleMatched(rule, message_text) ==
    \E keyword \in {Strip(rule.keyword)} :
    \E text_to_match \in {IF rule.case_sensitive THEN message_text
                          ELSE Lower(message_text)} :
    \E keyword_to_match \in {IF rule.case_sensitive THEN keyword
                             ELSE Lower(keyword)} :
        CASE rule.match_type = "exact" ->
               Strip(text_to_match) = Strip(keyword_to_match)
          [] rule.match_type = "contains" ->
               Contains(keyword_to_match, text_to_match)
          [] rule.match_type = "startswith" ->
               StartsWith(text_to_match, keyword_to_match)
          [] rule.match_type = "endswith" ->
               EndsWith(text_to_match, keyword_to_match)
          [] rule.match_type = "regex" ->
               IF rule.case_sensitive THEN Contains(keyword, message_text)
               ELSE Contains(Lower(keyword), Lower(message_text))
          [] OTHER -> FALSE

RuleRaises(rule) ==
    rule.match_type = "regex" /\ PatternRaises(Strip(rule.keyword))

\* One turn of the for loop (lines 317-388): the result returned for the
\* rule, or None when the rule is skipped, does not match or raises
TryRule(rule, message_text) ==
    IF /\ Strip(rule.keyword) # <<>>
       /\ ~RuleRaises(rule)
       /\ RuleMatched(rule, message_text)
    THEN [keyword |-> Strip(rule.keyword),
          reply_content |-> rule.reply_content,
          match_type |-> rule.match_type,
          rule_id |-> rule.id,
          priority |-> rule.priority]
    ELSE NoMatch

\* The loop without the try block around a rule: the exception of a rule
\* reaches the handler of line 392, which returns None
RECURSIVE MatchLoopAbort(_, _, _)
MatchLoopAbort(rules, i, message_text) ==
    IF i > Len(rules) THEN NoMatch
    ELSE IF Strip(rules[i].keyword) # <<>> /\ RuleRaises(rules[i]) THEN NoMatch
    ELSE The({IF found # NoMatch THEN found
              ELSE MatchLoopAbort(rules, i + 1, message_text) :
                 found \in {TryRule(rules[i], message_text)}})

\* The for loop over the sorted rules (lines 317-390), from rule number i on
RECURSIVE MatchLoop(_, _, _)
MatchLoop(rules, i, message_text) ==
    IF i > Len(rules) THEN NoMatch
    ELSE The({IF found # NoMatch THEN found
              ELSE MatchLoop(rules, i + 1, message_text) :
                 found \in {TryRule(rules[i], message_text)}})

match_auto_reply(table, message_text) ==
    IF message_text = <<>> \/ Strip(message_text) = <<>> THEN NoMatch
    ELSE The({IF rules = <<>> THEN NoMatch
              ELSE The({MatchLoop(sorted, 1, message_text) :
                           sorted \in {SortByPriority(rules)}}) :
                 rules \in {get_auto_reply_rules(table, AccountUid, TRUE)}})

----------------------------------------------------------------------------
(* The remote service: the conversations and messages it may return.       *)
(* A message is [talker_id, sender_uid, msg_type, timestamp, msg_key,      *)
(* msg_seqno, content]; content is the raw string, described by its format *)
(* (a JSON object with a string "content", a JSON object whose "content"   *)
(* is a number, or plain text) and the text it carries.                    *)

Cat == <<"c", "a", "t">>
Dog == <<"d", "o", "g">>

Msg(talker, sender, type, ts, seqno, fmt, text) ==
    [talker_id |-> talker, sender_uid |-> sender, msg_type |-> type,
     timestamp |-> ts, msg_key |-> seqno, msg_seqno |-> seqno,
     content |-> [fmt |-> fmt, text |-> text]]

DaySeconds == 86400     \* the 24h of the age check, and one calendar day

\* What fetch_session_msgs holds for each talker, in the order returned
Inbox(talker) ==
    CASE talker = 1 ->
           << Msg(1, "p1", 1, Now0 - 10, 11, "json", Cat),
              Msg(1, "p1", 1, Now0 - 5, 12, "json", Cat),
              Msg(1, "p1", 1, Now0 - 4, 13, "json", Dog),
              Msg(1, "p1", 2, Now0 - 3, 14, "json", Cat) >>
      [] talker = 2 ->
           << Msg(2, AccountUid, 1, Now0 - 20, 21, "json", Cat),
              Msg(2, "p2", 1, Now0 - 90000, 22, "json", Cat),
              Msg(2, "p2", 1, Now0 - DaySeconds, 23, "raw", <<" ">> \o Cat) >>
      [] talker = 3 ->
           << Msg(3, "p3", 1, Now0 - 1, 31, "json_number", <<>>) >>
      [] OTHER -> <<>>

Talkers == {1, 2, 3}
AllMsgs == UNION {Range(Inbox(t)) : t \in Talkers}

\* get_sessions: (False, error), or (True, session_list); a session is
\* modelled by its talker_id, 0 being a session without one
SessionLists == {<<>>, <<1, 2>>, <<0, 3>>}

\* get_session_messages(talker_id, size=10): the most recent messages
FetchResults(talker) == {<<>>, Inbox(talker)}

----------------------------------------------------------------------------
(* MessageManager._generate_message_id: the six fields joined by "_"; the  *)
(* last one is the first 8 hex digits of the MD5 of the content.           *)

ContentHash(content) == <<content.fmt, content.text>>

\* The identity built with the time of the call in the place of the
\* timestamp of the message
GenerateMessageIdAtCall(talker_id, msg) ==
    <<talker_id, msg.sender_uid, now, msg.msg_key, msg.msg_seqno,
      ContentHash(msg.content)>>

_generate_message_id(talker_id, msg) ==
    <<talker_id, msg.sender_uid, msg.timestamp, msg.msg_key, msg.msg_seqno,
      ContentHash(msg.content)>>

MsgId(m) == _generate_message_id(m.talker_id, m)

\* json.loads(content_raw).get('content', ''), or the raw content when the
\* content is not JSON (lines 756-764)
DecodeText(content) ==
    CASE content.fmt = "json"        -> [str |-> TRUE, text |-> content.text]
      [] content.fmt = "raw"         -> [str |-> TRUE, text |-> content.text]
      [] content.fmt = "json_number" -> [str |-> FALSE, text |-> <<>>]

----------------------------------------------------------------------------
(* Attributes and methods that exist at run time.                          *)

\* Every self.<name> assigned by MessageManager.__init__ and
\* load_account_config
MessageManagerAttrs ==
    {"login_handler", "account_uid", "session", "auto_reply_enabled",
     "listening_thread", "stop_listening", "sessions_cache", "messages_cache",
     "db", "reply_delay_min", "reply_delay_max", "daily_limit",
     "scan_interval", "account_config", "today_reply_count",
     "processed_messages", "replied_messages", "my_recent_replies",
     "message_lock", "log_count", "last_log_clear", "gui_log_callback"}

\* Every method of AutoReplyDatabase
AutoReplyDatabaseMethods ==
    {"init_database", "log_auto_reply", "_update_stats",
     "save_auto_reply_rule", "get_auto_reply_rules", "delete_auto_reply_rule",
     "toggle_rule_status", "save_account_config", "get_account_config",
     "get_reply_logs", "get_reply_stats", "delete_old_logs",
     "get_daily_stats", "get_keyword_stats"}

----------------------------------------------------------------------------
(* Account configuration and daily counter                                 *)

ConfigRow(enabled, dmin, dmax, limit, interval) ==
    [auto_reply_enabled |-> enabled, reply_delay_min |-> dmin,
     reply_delay_max |-> dmax, daily_limit |-> limit,
     scan_interval |-> interval]

\* MessageManager.load_account_config: the stored row, or the defaults
load_account_config(row) ==
    IF row # NoRow THEN row ELSE ConfigRow(FALSE, 2, 8, 100, 8)

\* The local calendar date, date.today().isoformat(), as a day number
DateOf(t) == t \div DaySeconds

\* The date test inverted
TodayCountInverted(stats, t) ==
    IF stats # NoRow
    THEN IF stats.last_update_date # DateOf(t) THEN stats.today_replies ELSE 0
    ELSE 0

\* MessageManager._update_today_count
TodayCount(stats, t) ==
    IF stats # NoRow
    THEN IF stats.last_update_date = DateOf(t) THEN stats.today_replies ELSE 0
    ELSE 0

\* The account_configs row the database file may hold at start-up
InitConfigs == {NoRow, ConfigRow(FALSE, 1, 3, 0, 8), ConfigRow(TRUE, 1, 3, 1, 5)}

\* The auto_reply_stats row the database file may hold at start-up, as
\* AutoReplyDatabase._update_stats writes them
InitStats ==
    {NoRow,
     [total_replies |-> 1, today_replies |-> 1,
      last_update_date |-> DateOf(Now0)]}

\* The rules of the account: A (priority 5, contains "a") and
\* B (priority 10, exact "cat")
RuleA ==
    [keyword |-> <<"a">>, reply_content |-> "reply-A", match_type |-> "contains",
     case_sensitive |-> FALSE, priority |-> 5]
RuleB ==
    [keyword |-> Cat, reply_content |-> "reply-B", match_type |-> "exact",
     case_sensitive |-> FALSE, priority |-> 10]

InitRules ==
    save_auto_reply_rule(save_auto_reply_rule(<<>>, AccountUid, RuleA, TRUE),
                         AccountUid, RuleB, TRUE)

----------------------------------------------------------------------------
(* State of the threads                                                    *)

Threads == 1..MaxThreads
Keys    == {m.msg_seqno : m \in AllMsgs}

Unborn ==
    [pc |-> "unborn", polls |-> 0, sessions |-> <<>>, si |-> 0,
     messages |-> <<>>, mi |-> 0, current_time |-> 0, reply |-> NoMatch,
     sleep |-> 0]

\* threading.Thread.is_alive
is_alive(t) == worker[t].pc \notin {"unborn", "done"}

NoCall == [called |-> FALSE, text |-> <<>>, result |-> NoMatch]

\* seen: runs of the pipeline on the message; passes: insertions into the
\* processed set; matched: rule matches; limited: aborted by the daily limit;
\* delivers: entries into the delivery stage (line 786); errors: exceptions
\* caught by the handler of line 831; ids: the identities generated for it
NoHist == [seen |-> 0, passes |-> 0, matched |-> 0, limited |-> 0,
           delivers |-> 0, errors |-> 0, ids |-> {}]

\* gui_log_callback is None, a callback that returns ("ok") or one that
\* raises; raised: the callback has raised inside _log_with_management;
\* escaped: an exception of the callback has left _log_with_management
NoSink == [callback |-> "none", raised |-> FALSE, escaped |-> FALSE]

\* What MessageManager.__init__ loads from the database file (lines 52-59)
\* and what the model records, given the row of account_configs
Loaded(rules) ==
    /\ daily_limit = load_account_config(db_config).daily_limit
    /\ scan_interval = load_account_config(db_config).scan_interval
    /\ reply_delay_min = load_account_config(db_config).reply_delay_min
    /\ reply_delay_max = load_account_config(db_config).reply_delay_max
    /\ db_stats \in InitStats
    /\ now = Now0
    /\ today_reply_count = TodayCount(db_stats, Now0)
    /\ replied_messages = {}
    /\ db_rules = rules
    /\ sent = <<>>
    /\ hist = [k \in Keys |-> NoHist]
    /\ mres = NoCall
    /\ db_logs = <<>>
    /\ count_date = DateOf(Now0)
    /\ sink = NoSink

\* MessageManager.__init__, on a database file holding the given rules
InitWith(rules) ==
    /\ processed_messages = {}
    /\ worker = [t \in Threads |-> Unborn]
    /\ ctl = [pc |-> "idle", last |-> "none", stops |-> 0]
    /\ listening_thread = 0
    /\ auto_reply_enabled = FALSE
    /\ stop_listening = FALSE
    /\ db_config \in InitConfigs
    /\ Loaded(rules)

Init == InitWith(InitRules)

----------------------------------------------------------------------------
(* Listener lifecycle                                                      *)

MaxStops == 1          \* stop calls made by the caller

\* The row written with the flag as it was before the call
SaveConfigStale(enabled) ==
    ConfigRow(auto_reply_enabled, reply_delay_min, reply_delay_max,
              daily_limit, scan_interval)

\* MessageManager.save_account_config -> AutoReplyDatabase.save_account_config
\* (INSERT OR REPLACE of the account's row)
save_account_config(enabled) ==
    ConfigRow(enabled, reply_delay_min, reply_delay_max, daily_limit,
              scan_interval)

\* The test with is_alive negated
AlreadyRunningNegated == listening_thread # 0 /\ ~is_alive(listening_thread)

\* if self.listening_thread and self.listening_thread.is_alive(): return
AlreadyRunning == listening_thread # 0 /\ is_alive(listening_thread)

\* MessageManager.start_auto_reply_listener
start_auto_reply_listener ==
    /\ ctl.pc = "idle"
    /\ IF AlreadyRunning
       THEN /\ ctl' = [ctl EXCEPT !.last = "start_noop"]
            /\ UNCHANGED <<engineVars, db_config, worker>>
       ELSE \E t \in Threads :
              /\ worker[t].pc = "unborn"
              /\ \A u \in Threads : u < t => worker[u].pc # "unborn"
              /\ auto_reply_enabled' = TRUE
              /\ stop_listening' = FALSE
              /\ db_config' = save_account_config(TRUE)
              /\ listening_thread' = t
              /\ worker' = [worker EXCEPT ![t].pc = "loop"]
              /\ ctl' = [ctl EXCEPT !.last = "start_spawn"]
    /\ UNCHANGED <<confVars, today_reply_count, dedupVars, db_rules, db_stats,
                   now, sent, hist, mres, statVars, sink>>

\* MessageManager.stop_auto_reply_listener up to the join
stop_auto_reply_listener ==
    /\ ctl.pc = "idle"
    /\ ctl.stops < MaxStops
    /\ auto_reply_enabled' = FALSE
    /\ stop_listening' = TRUE
    /\ db_config' = save_account_config(FALSE)
    /\ ctl' = [ctl EXCEPT !.pc = IF listening_thread # 0 THEN "joining"
                                 ELSE "idle",
                          !.last = IF listening_thread # 0 THEN "stopping"
                                   ELSE "stop",
                          !.stops = @ + 1]
    /\ UNCHANGED <<listening_thread, confVars, today_reply_count, dedupVars,
                   db_rules, db_stats, now, worker, sent, hist, mres, statVars,
                   sink>>

\* The worker is inside a blocking call: a sleep or an HTTP request
Blocked(t) ==
    worker[t].pc \in {"sleep", "get_sessions", "get_messages", "deliver"}

\* self.listening_thread.join(timeout=5) returns: the thread has finished,
\* or 5 seconds have passed while it was blocked
join_returns ==
    /\ ctl.pc = "joining"
    /\ ~is_alive(listening_thread) \/ Blocked(listening_thread)
    /\ ctl' = [ctl EXCEPT !.pc = "idle",
                          !.last = IF is_alive(listening_thread)
                                   THEN "stop_timeout" ELSE "stop"]
    /\ UNCHANGED <<engineVars, confVars, today_reply_count, dedupVars, dbVars,
                   now, worker, sent, hist, mres, statVars, sink>>

----------------------------------------------------------------------------
(* MessageManager._auto_reply_worker, thread t                             *)

FallbackSleep == 10     \* time.sleep(10) after a failure
EmptySleep    == 8      \* time.sleep(8) when there is no session
MaxScan       == 20     \* min(20, len(sessions))
TextType      == 1      \* msg_type of a text message
ProcessedCap  == 1000   \* len(self.processed_messages) > 1000
CleanupBatch  == 500    \* list(self.processed_messages)[:500]

workerFrame ==
    <<listening_thread, confVars, db_rules, db_config, ctl, statVars>>

\* The loop condition negated without exchanging "and" for "or"
CancelledBoth == stop_listening /\ auto_reply_enabled

\* while not self.stop_listening and self.auto_reply_enabled (line 605),
\* and the same test at lines 651 and 699
Cancelled == stop_listening \/ ~auto_reply_enabled

\* time.sleep(d), then back to the top of the loop
Sleep(t, d) == [worker[t] EXCEPT !.pc = "sleep", !.sleep = d]

\* The call of the callback without the try block around it
LogUnguarded == IF sink.callback = "raises" THEN "raised" ELSE "logged"

\* MessageManager._log_with_management: print the message and hand it to
\* gui_log_callback when there is one; "try: ... except: pass" around the
\* call of the callback (lines 978-981)
_log_with_management ==
    IF sink.callback = "raises" THEN "swallowed" ELSE "logged"

\* The record of the callback after a call of _log_with_management
AfterLog ==
    [sink EXCEPT !.raised = @ \/ sink.callback = "raises",
                 !.escaped = @ \/ _log_with_management = "raised"]

\* The worker after a step that logs and then leaves it as w.  Every log
\* call of the worker is followed, on the way out, by another one (the
\* handlers of lines 832 and 844, the last line 849), so that an exception
\* leaving _log_with_management ends the thread.
Logged(t, w) ==
    IF _log_with_management = "raised" THEN [worker[t] EXCEPT !.pc = "done"]
    ELSE w

\* A failure that is not caught: the exception ends the thread
OnFailureDie(t) == [worker[t] EXCEPT !.pc = "done"]

\* Lines 609-612 and 843-847: a failed get_sessions, or an exception caught
\* by the handler of the loop body: log, sleep 10 seconds, go on
OnFailure(t) == Sleep(t, FallbackSleep)

RECURSIVE PollsUpTo(_)
PollsUpTo(n) == IF n = 0 THEN 0 ELSE worker[n].polls + PollsUpTo(n - 1)

\* Line 605: leave the loop (and the thread), or start a scan cycle
LoopTop(t) ==
    /\ worker[t].pc = "loop"
    /\ IF Cancelled
       THEN /\ worker' = [worker EXCEPT ![t].pc = "done"]
            /\ sink' = AfterLog
       ELSE /\ PollsUpTo(MaxThreads) < MaxPolls
            /\ worker' = [worker EXCEPT ![t] =
                  IF worker[t].polls = 0
                  THEN Logged(t, [worker[t] EXCEPT !.pc = "get_sessions",
                                                   !.polls = 1])
                  ELSE [worker[t] EXCEPT !.pc = "get_sessions",
                                         !.polls = @ + 1]]
            /\ sink' = IF worker[t].polls = 0 THEN AfterLog ELSE sink
    /\ UNCHANGED <<engineVars, workerFrame, today_reply_count, dedupVars,
                   db_stats, now, sent, hist, mres>>

\* Lines 607-619: get_sessions returns
GetSessions(t) ==
    /\ worker[t].pc = "get_sessions"
    /\ \/ worker' = [worker EXCEPT ![t] = Logged(t, OnFailure(t))]
       \/ \E sl \in SessionLists :
            worker' = [worker EXCEPT ![t] = Logged(t,
                IF sl = <<>> THEN Sleep(t, EmptySleep)
                ELSE [worker[t] EXCEPT !.pc = "next_session",
                                       !.sessions = sl, !.si = 1,
                                       !.current_time = now])]
    /\ sink' = AfterLog
    /\ UNCHANGED <<engineVars, workerFrame, today_reply_count, dedupVars,
                   db_stats, now, sent, hist, mres>>

\* Every session of the list scanned
MaxScanAll(sessions) == Len(sessions)

\* max_scan = min(20, len(sessions)) (line 648)
max_scan(sessions) == Min2(MaxScan, Len(sessions))

\* Lines 650-662 and 836-841: the head of the session loop
NextSession(t) ==
    LET w == worker[t]
    IN  /\ w.pc = "next_session"
        /\ worker' = [worker EXCEPT ![t] =
              IF w.si > max_scan(w.sessions) \/ Cancelled
              THEN Logged(t, Sleep(t, scan_interval))
              ELSE IF w.sessions[w.si] = 0 THEN [w EXCEPT !.si = @ + 1]
              ELSE Logged(t, [w EXCEPT !.pc = "get_messages"])]
        /\ sink' = IF \/ w.si > max_scan(w.sessions)
                      \/ Cancelled
                      \/ w.sessions[w.si] # 0
                   THEN AfterLog ELSE sink
        /\ UNCHANGED <<engineVars, workerFrame, today_reply_count, dedupVars,
                       db_stats, now, sent, hist, mres>>

\* Lines 676-695: the preview of messages[:3] raises when the "content" of a
\* text message decodes to something that cannot be sliced
PreviewRaises(messages) ==
    \E j \in 1..Min2(3, Len(messages)) :
        /\ messages[j].msg_type = TextType
        /\ ~DecodeText(messages[j].content).str

\* Lines 664-695: get_session_messages returns
GetMessages(t) ==
    LET w == worker[t]
        skip == [w EXCEPT !.pc = "next_session", !.si = @ + 1]
    IN  /\ w.pc = "get_messages"
        /\ \/ worker' = [worker EXCEPT ![t] = Logged(t, skip)]
           \/ \E ms \in FetchResults(w.sessions[w.si]) :
                worker' = [worker EXCEPT ![t] = Logged(t,
                    IF ms = <<>> THEN skip
                    ELSE IF PreviewRaises(ms) THEN OnFailure(t)
                    ELSE [w EXCEPT !.pc = "next_message", !.messages = ms,
                                   !.mi = 1])]
        /\ sink' = AfterLog
        /\ UNCHANGED <<engineVars, workerFrame, today_reply_count, dedupVars,
                       db_stats, now, sent, hist, mres>>

\* Lines 698-700: the head of the message loop
NextMessage(t) ==
    LET w == worker[t]
    IN  /\ w.pc = "next_message"
        /\ worker' = [worker EXCEPT ![t] =
              IF w.mi > Len(w.messages) \/ Cancelled
              THEN [w EXCEPT !.pc = "next_session", !.si = @ + 1]
              ELSE [w EXCEPT !.pc = "process"]]
        /\ UNCHANGED <<engineVars, workerFrame, today_reply_count, dedupVars,
                       db_stats, now, sent, hist, mres, sink>>

----------------------------------------------------------------------------
(* The per-message pipeline, lines 702-834                                 *)

\* The two uids compared as they are, a number with a string
IsOwnUnconverted(msg) == FALSE

\* str(sender_uid) == str(self.account_uid)
IsOwn(msg) == msg.sender_uid = AccountUid

IsText(msg) == msg.msg_type = TextType

\* The test with its operands exchanged
TooOldSwapped(current_time, msg) == msg.timestamp - current_time > DaySeconds

\* time_diff > 86400, time_diff = current_time - msg_timestamp
TooOld(current_time, msg) == current_time - msg.timestamp > DaySeconds

\* MessageManager.get_today_reply_count
get_today_reply_count == today_reply_count

\* The test with > for >=
LimitReachedStrict == daily_limit > 0 /\ today_reply_count > daily_limit

\* self.daily_limit > 0 and today_count >= self.daily_limit
LimitReached == daily_limit > 0 /\ get_today_reply_count >= daily_limit

\* The identity of the i-th of the messages of another peer that the worker
\* processed in earlier cycles
Filler(i) == <<9, "p9", Now0 - 100, i, i, ContentHash([fmt |-> "json",
                                                       text |-> Dog])>>

Backlog(n) == {Filler(i) : i \in 1..n}

\* list(self.processed_messages)[:500]: the first 500 members in the
\* iteration order of the set, which is arbitrary.  The two extreme orders
\* are taken: the earlier messages first, in the order they came, and the
\* reverse of it, which starts with the newest identities.
OldMessages(p) ==
    {S \in {p \cap Backlog(CleanupBatch),
            p \ Backlog(Cardinality(p) - CleanupBatch)} :
        Cardinality(S) = CleanupBatch}

\* The cleanup left out
AfterCleanupNone(p) == {p}

\* Lines 743-747: the set after the cleanup of "old" records
AfterCleanup(p) ==
    IF Cardinality(p) > ProcessedCap
    THEN {p \ old_messages : old_messages \in OldMessages(p)}
    ELSE {p}

\* The membership test made on the replied set
AlreadyRepliedOnly(msg_id) == msg_id \in replied_messages

\* if msg_id in self.processed_messages
AlreadyProcessed(msg_id) == msg_id \in processed_messages

\* with self.message_lock: no other thread is between its membership test
\* (line 728) and the end of its cleanup (line 747)
LockFreeAlways == TRUE

LockFree == \A u \in Threads : worker[u].pc # "locked"

\* How far the message gets in lines 712-737: the tests made before the
\* identity is inserted
Gate(current_time, msg) ==
    IF IsOwn(msg) THEN "own"
    ELSE IF ~IsText(msg) THEN "nontext"
    ELSE IF AlreadyProcessed(MsgId(msg)) THEN "duplicate"
    ELSE IF TooOld(current_time, msg) THEN "stale"
    ELSE "pass"

\* How far an inserted message gets in lines 749-784; reply is what
\* match_auto_reply returns for its text
Outcome(msg, reply) ==
    LET decoded == DecodeText(msg.content)
    IN  IF msg.content.fmt = "raw" /\ msg.content.text = <<>> THEN "empty"
        ELSE IF ~decoded.str THEN "raise"
        ELSE IF Strip(decoded.text) = <<>> THEN "blank"
        ELSE IF reply = NoMatch THEN "nomatch"
        ELSE IF LimitReached THEN "limited"
        ELSE "deliver"

Bump(k, field) == [hist EXCEPT ![k][field] = @ + 1]

\* Lines 702-737: the own-message and type tests, the identity, then, with
\* the lock taken, the membership test and the age test.  A message that
\* passes them leaves the thread inside the "with" block, before line 740.
ProcessMessage(t) ==
    LET w   == worker[t]
        msg == w.messages[w.mi]
        k   == msg.msg_seqno
    IN  /\ w.pc = "process"
        /\ IsOwn(msg) \/ ~IsText(msg) \/ LockFree
        /\ \E gate \in {Gate(w.current_time, msg)} :
             /\ hist' = [hist EXCEPT ![k].seen = @ + 1,
                                     ![k].ids =
                                        IF gate \in {"own", "nontext"} THEN @
                                        ELSE @ \cup {MsgId(msg)}]
             /\ worker' = [worker EXCEPT ![t] = Logged(t,
                   IF gate = "pass" THEN [w EXCEPT !.pc = "locked"]
                   ELSE [w EXCEPT !.pc = "next_message", !.mi = @ + 1])]
             /\ sink' = AfterLog
        /\ UNCHANGED <<engineVars, workerFrame, today_reply_count, dedupVars,
                       db_stats, now, sent, mres>>

\* Lines 739-784: the insertion and the cleanup, which end the "with" block,
\* then the decoding of the content, the match and the daily-limit test
InsertMessage(t) ==
    LET w   == worker[t]
        msg == w.messages[w.mi]
        k   == msg.msg_seqno
    IN  /\ w.pc = "locked"
        /\ \E text \in {Strip(DecodeText(msg.content).text)} :
           \E reply \in {match_auto_reply(db_rules, text)} :
           \E stage \in {Outcome(msg, reply)} :
             /\ processed_messages' \in
                   AfterCleanup(processed_messages \cup {MsgId(msg)})
             /\ mres' = IF stage \in {"nomatch", "limited", "deliver"}
                        THEN [called |-> TRUE, text |-> text, result |-> reply]
                        ELSE mres
             /\ hist' = [hist EXCEPT ![k] =
                   [seen     |-> @.seen,
                    passes   |-> @.passes + 1,
                    matched  |-> @.matched +
                        (IF stage \in {"limited", "deliver"} THEN 1 ELSE 0),
                    limited  |-> @.limited +
                        (IF stage = "limited" THEN 1 ELSE 0),
                    delivers |-> @.delivers +
                        (IF stage = "deliver" THEN 1 ELSE 0),
                    errors   |-> @.errors +
                        (IF stage = "raise" THEN 1 ELSE 0),
                    ids      |-> @.ids]]
             /\ worker' = [worker EXCEPT ![t] = Logged(t,
                   IF stage = "deliver"
                   THEN [w EXCEPT !.pc = "deliver", !.reply = reply]
                   ELSE [w EXCEPT !.pc = "next_message", !.mi = @ + 1])]
             /\ sink' = AfterLog
        /\ UNCHANGED <<engineVars, workerFrame, today_reply_count,
                       replied_messages, db_stats, now, sent>>

\* Lines 786-834: the random delay, send_message and the bookkeeping.
\* random.randint(self.min_delay, self.max_delay) reads two attributes and
\* self.db.add_reply_log calls a method; reading an attribute the object
\* does not have raises AttributeError, which the handler of line 831
\* catches before the loop goes on with the next message.
Deliver(t) ==
    LET w    == worker[t]
        msg  == w.messages[w.mi]
        k    == msg.msg_seqno
        next == [w EXCEPT !.pc = "next_message", !.mi = @ + 1,
                          !.reply = NoMatch]
    IN  /\ w.pc = "deliver"
        /\ worker' = [worker EXCEPT ![t] = Logged(t, next)]
        /\ sink' = AfterLog
        /\ hist' = Bump(k, "errors")
        /\ IF {"min_delay", "max_delay"} \subseteq MessageManagerAttrs
           THEN \E delay \in reply_delay_min..reply_delay_max,
                   success \in BOOLEAN :
                  /\ now' = now + delay
                  /\ sent' = Append(sent,
                        [key |-> k, receiver_id |-> w.sessions[w.si],
                         content |-> w.reply.reply_content,
                         success |-> success])
                  /\ replied_messages' =
                        IF success THEN replied_messages \cup {MsgId(msg)}
                        ELSE replied_messages
                  /\ "add_reply_log" \notin AutoReplyDatabaseMethods
           ELSE UNCHANGED <<now, sent, replied_messages>>
        /\ UNCHANGED <<engineVars, workerFrame, today_reply_count,
                       processed_messages, db_stats, mres>>

\* time.sleep returns (lines 611, 616, 841, 847)
Wake(t) ==
    /\ worker[t].pc = "sleep"
    /\ now' = now + worker[t].sleep
    /\ worker' = [worker EXCEPT ![t].pc = "loop"]
    /\ UNCHANGED <<engineVars, workerFrame, today_reply_count, dedupVars,
                   db_stats, sent, hist, mres, sink>>

WorkerStep(t) ==
    \/ LoopTop(t)
    \/ GetSessions(t)
    \/ NextSession(t)
    \/ GetMessages(t)
    \/ NextMessage(t)
    \/ ProcessMessage(t)
    \/ InsertMessage(t)
    \/ Deliver(t)
    \/ Wake(t)

Next ==
    \/ start_auto_reply_listener
    \/ stop_auto_reply_listener
    \/ join_returns
    \/ \E t \in Threads : WorkerStep(t)

Spec == Init /\ [][Next]_vars

\* Some thread that can run does, every sleep and HTTP request returns, and
\* the join of stop_auto_reply_listener has a timeout
FairSpec ==
    /\ Spec
    /\ WF_vars(join_returns)
    /\ WF_vars(\E t \in Threads : WorkerStep(t))

----------------------------------------------------------------------------
(* The rule matcher on its own: rules are saved and toggled through the    *)
(* database, and match_auto_reply is called on a text.                     *)

RuleC ==
    [keyword |-> <<"C">>, reply_content |-> "reply-C",
     match_type |-> "startswith", case_sensitive |-> FALSE, priority |-> 5]
RuleD ==
    [keyword |-> <<"(">>, reply_content |-> "reply-D", match_type |-> "regex",
     case_sensitive |-> FALSE, priority |-> 10]

RuleTemplates == {RuleA, RuleB, RuleC, RuleD}
Texts == {Cat, <<"a">>, Dog, <<" ">>, <<"C", "a", "t">>}

matchFrame ==
    <<engineVars, confVars, today_reply_count, dedupVars, db_config, db_stats,
      now, worker, ctl, sent, hist, statVars, sink>>

InitMatch ==
    /\ InitWith(<<>>)
    /\ db_config = NoRow
    /\ db_stats = NoRow

\* MessageManager.add_auto_reply_rule, or the same call on the manager of
\* another account
SaveRule ==
    /\ Len(db_rules) < MaxRules
    /\ \E tmpl \in RuleTemplates, uid \in {AccountUid, OtherUid},
          enabled \in BOOLEAN :
         db_rules' = save_auto_reply_rule(db_rules, uid, tmpl, enabled)
    /\ mres' = NoCall
    /\ UNCHANGED matchFrame

\* MessageManager.toggle_rule_status
ToggleRule ==
    /\ \E id \in 1..Len(db_rules) :
         /\ db_rules[id].account_uid = AccountUid
         /\ db_rules' = toggle_rule_status(db_rules, AccountUid, id)
    /\ mres' = NoCall
    /\ UNCHANGED matchFrame

\* MessageManager.match_auto_reply(message_text)
MatchCall ==
    /\ \E text \in Texts :
         mres' = [called |-> TRUE, text |-> text,
                  result |-> match_auto_reply(db_rules, text)]
    /\ UNCHANGED <<matchFrame, db_rules>>

NextMatch == SaveRule \/ ToggleRule \/ MatchCall

MatchSpec == InitMatch /\ [][NextMatch]_vars

----------------------------------------------------------------------------
(* The worker late in a run: it was started, and earlier cycles have put   *)
(* the identities of 999 or 1000 messages into the processed set.  The     *)
(* account has the default configuration, or a daily limit of one reply    *)
(* that the replies counted for today may have used up.                    *)

InitLate ==
    /\ \E n \in {ProcessedCap - 1, ProcessedCap} :
          processed_messages = Backlog(n)
    /\ worker = [t \in Threads |->
                    IF t = 1 THEN [Unborn EXCEPT !.pc = "loop"] ELSE Unborn]
    /\ ctl = [pc |-> "idle", last |-> "start_spawn", stops |-> 0]
    /\ listening_thread = 1
    /\ auto_reply_enabled = TRUE
    /\ stop_listening = FALSE
    /\ db_config \in {ConfigRow(TRUE, 2, 8, 100, 8), ConfigRow(TRUE, 1, 3, 1, 5)}
    /\ Loaded(InitRules)

\* The worker thread runs on; no call of start or stop is made
NextLate == \E t \in Threads : WorkerStep(t)

LateSpec == InitLate /\ [][NextLate]_vars

----------------------------------------------------------------------------
(* The worker right after its start, when every network call and every     *)
(* sleep returns and the thread is scheduled again and again.              *)

InitPoll ==
    /\ processed_messages = {}
    /\ worker = [t \in Threads |->
                    IF t = 1 THEN [Unborn EXCEPT !.pc = "loop"] ELSE Unborn]
    /\ ctl = [pc |-> "idle", last |-> "start_spawn", stops |-> 0]
    /\ listening_thread = 1
    /\ auto_reply_enabled = TRUE
    /\ stop_listening = FALSE
    /\ db_config \in {ConfigRow(TRUE, 2, 8, 100, 8), ConfigRow(TRUE, 1, 3, 1, 5)}
    /\ Loaded(InitRules)

NextPoll == \E t \in Threads : WorkerStep(t)

PollSpec ==
    /\ InitPoll
    /\ [][NextPoll]_vars
    /\ \A t \in Threads : WF_vars(WorkerStep(t))

----------------------------------------------------------------------------
(* Two workers on one manager.  toggle_auto_reply runs every call of       *)
(* start_auto_reply_listener in a thread of its own; two calls that both   *)
(* pass the is_alive test of line 573 before either has assigned           *)
(* listening_thread (line 581) each start a worker.                        *)

InitRace ==
    /\ processed_messages = {}
    /\ worker = [t \in Threads |->
                    IF t <= 2 THEN [Unborn EXCEPT !.pc = "loop"] ELSE Unborn]
    /\ ctl = [pc |-> "idle", last |-> "start_spawn", stops |-> 0]
    /\ listening_thread = 2
    /\ auto_reply_enabled = TRUE
    /\ stop_listening = FALSE
    /\ db_config = NoRow
    /\ Loaded(InitRules)

\* Both threads run on
NextRace == \E t \in Threads : WorkerStep(t)

RaceSpec == InitRace /\ [][NextRace]_vars

----------------------------------------------------------------------------
(* Two calls of start_auto_reply_listener made by two toggle threads       *)
(* (MessageWindow.toggle_auto_reply starts a thread for every toggle).     *)
(* Here ctl holds one record for each of the calling threads.  A call is   *)
(* taken in two steps: the test of line 573, then lines 576-585.           *)

Callers == {1, 2}

InitToggle ==
    /\ processed_messages = {}
    /\ worker = [t \in Threads |-> Unborn]
    /\ ctl = [c \in Callers |-> [pc |-> "idle", last |-> "none", stops |-> 0]]
    /\ listening_thread = 0
    /\ auto_reply_enabled = FALSE
    /\ stop_listening = FALSE
    /\ db_config = NoRow
    /\ Loaded(InitRules)

\* Line 573: if self.listening_thread and self.listening_thread.is_alive()
StartTest(c) ==
    /\ ctl[c].pc = "idle"
    /\ ctl' = [ctl EXCEPT ![c] =
                  IF AlreadyRunning
                  THEN [@ EXCEPT !.pc = "returned", !.last = "start_noop"]
                  ELSE [@ EXCEPT !.pc = "passed"]]
    /\ UNCHANGED <<engineVars, confVars, today_reply_count, dedupVars, dbVars,
                   now, worker, sent, hist, mres, statVars, sink>>

\* Lines 576-585: the flags, the configuration row, the new thread
StartSpawn(c) ==
    /\ ctl[c].pc = "passed"
    /\ \E t \in Threads :
          /\ worker[t].pc = "unborn"
          /\ \A u \in Threads : u < t => worker[u].pc # "unborn"
          /\ auto_reply_enabled' = TRUE
          /\ stop_listening' = FALSE
          /\ db_config' = save_account_config(TRUE)
          /\ listening_thread' = t
          /\ worker' = [worker EXCEPT ![t].pc = "loop"]
    /\ ctl' = [ctl EXCEPT ![c] =
                  [@ EXCEPT !.pc = "returned", !.last = "start_spawn"]]
    /\ UNCHANGED <<confVars, today_reply_count, dedupVars, db_rules, db_stats,
                   now, sent, hist, mres, statVars, sink>>

NextToggle ==
    \/ \E c \in Callers : StartTest(c)
    \/ \E c \in Callers : StartSpawn(c)
    \/ \E t \in Threads : WorkerStep(t)

ToggleSpec == InitToggle /\ [][NextToggle]_vars

----------------------------------------------------------------------------
(* Rules that change while the worker runs: the account starts without     *)
(* rules, and rules are added and toggled between the steps of the worker, *)
(* which reads the table at every call of match_auto_reply.                *)

MaxAdded == 1          \* rules added while the worker runs

InitDecide ==
    /\ processed_messages = {}
    /\ worker = [t \in Threads |->
                    IF t = 1 THEN [Unborn EXCEPT !.pc = "loop"] ELSE Unborn]
    /\ ctl = [pc |-> "idle", last |-> "start_spawn", stops |-> 0]
    /\ listening_thread = 1
    /\ auto_reply_enabled = TRUE
    /\ stop_listening = FALSE
    /\ db_config = ConfigRow(TRUE, 2, 8, 100, 8)
    /\ Loaded(<<>>)

\* MessageManager.add_auto_reply_rule
AddRule ==
    /\ Len(db_rules) < MaxAdded
    /\ \E tmpl \in {RuleA, RuleB}, enabled \in BOOLEAN :
         db_rules' = save_auto_reply_rule(db_rules, AccountUid, tmpl, enabled)
    /\ mres' = NoCall
    /\ UNCHANGED matchFrame

NextDecide ==
    \/ AddRule
    \/ ToggleRule
    \/ \E t \in Threads : WorkerStep(t)

DecideSpec == InitDecide /\ [][NextDecide]_vars

----------------------------------------------------------------------------
(* MessageManager.update_auto_reply_rule on a table that holds a rule of   *)
(* the account and a rule of another account.                              *)

\* AutoReplyDatabase.save_auto_reply_rule with a rule_id: UPDATE ... WHERE
\* id = ? AND account_uid = ? (lines 242-251)
SqlUpdateRule(table, account_uid, rule_id, tmpl, enabled) ==
    [i \in 1..Len(table) |->
        IF table[i].id = rule_id /\ table[i].account_uid = account_uid
        THEN [table[i] EXCEPT !.keyword = tmpl.keyword,
                              !.reply_content = tmpl.reply_content,
                              !.match_type = tmpl.match_type,
                              !.case_sensitive = tmpl.case_sensitive,
                              !.enabled = enabled,
                              !.priority = tmpl.priority]
        ELSE table[i]]

\* MessageManager.update_auto_reply_rule: the table after the call and the
\* value returned.  save_auto_reply_rule takes the UPDATE branch when
\* rule_id is truthy and returns rule_id (line 253); for rule_id = 0 it
\* inserts a row and returns its id (line 267); the caller returns
\* result > 0.
update_auto_reply_rule(table, rule_id, tmpl, enabled) ==
    IF rule_id # 0
    THEN [table  |-> SqlUpdateRule(table, AccountUid, rule_id, tmpl, enabled),
          result |-> rule_id > 0]
    ELSE [table  |-> save_auto_reply_rule(table, AccountUid, tmpl, enabled),
          result |-> Len(table) + 1 > 0]

InitUpdate ==
    /\ InitWith(save_auto_reply_rule(
                    save_auto_reply_rule(<<>>, AccountUid, RuleB, TRUE),
                    OtherUid, RuleA, TRUE))
    /\ db_config = NoRow
    /\ db_stats = NoRow

\* A call of update_auto_reply_rule; mres keeps the rule_id and the result
UpdateRule ==
    /\ \E rule_id \in 0..(Len(db_rules) + 1), tmpl \in {RuleA, RuleB},
          enabled \in BOOLEAN :
         /\ rule_id = 0 => Len(db_rules) < MaxRules
         /\ \E r \in {update_auto_reply_rule(db_rules, rule_id, tmpl,
                                              enabled)} :
              /\ db_rules' = r.table
              /\ mres' = [called |-> TRUE, text |-> <<>>,
                          result |-> [rule_id |-> rule_id,
                                      updated |-> r.result]]
    /\ UNCHANGED matchFrame

NextUpdate == UpdateRule \/ ToggleRule

UpdateSpec == InitUpdate /\ [][NextUpdate]_vars

----------------------------------------------------------------------------
(* A scan cycle over more sessions than one cycle scans: get_sessions has  *)
(* returned 21 sessions (line 607) and the worker is at the head of the    *)
(* session loop.                                                           *)

\* The session of talker 3, the session of talker 2, 18 sessions without
\* messages, the session of talker 1
ManySessions == <<3, 2>> \o [i \in 1..18 |-> i + 3] \o <<1>>

InitScan ==
    /\ processed_messages = {}
    /\ worker = [t \in Threads |->
                    IF t = 1
                    THEN [Unborn EXCEPT !.pc = "next_session", !.polls = 1,
                                        !.sessions = ManySessions, !.si = 1,
                                        !.current_time = Now0]
                    ELSE Unborn]
    /\ ctl = [pc |-> "idle", last |-> "start_spawn", stops |-> 0]
    /\ listening_thread = 1
    /\ auto_reply_enabled = TRUE
    /\ stop_listening = FALSE
    /\ db_config \in InitConfigs
    /\ Loaded(InitRules)

\* The worker thread runs on
NextScan == \E t \in Threads : WorkerStep(t)

ScanSpec == InitScan /\ [][NextScan]_vars

----------------------------------------------------------------------------
(* The matcher on one rule: the account has one enabled rule, of any of    *)
(* the four literal match kinds, case-sensitive or not, and                *)
(* match_auto_reply is called on a text.                                   *)

Hi      == <<"H", "i">>
HiThere == <<"h", "i", " ", "t", "h", "e", "r", "e">>

CaseKeywords == {Hi, <<"h", "i">>}
CaseKinds    == {"exact", "contains", "startswith", "endswith"}
CaseTexts ==
    {HiThere, <<"H", "i", " ", "t", "h", "e", "r", "e">>,
     <<"t", "h", "e", "r", "e", " ", "h", "i">>,
     <<"t", "h", "e", "r", "e", " ", "H", "i">>,
     <<"h", "i">>, <<"H", "I">>, <<" ", "H", "i", " ">>}

InitCase ==
    /\ InitWith(<<>>)
    /\ db_config = NoRow
    /\ db_stats = NoRow

\* MessageManager.add_auto_reply_rule on the empty table
SaveCaseRule ==
    /\ db_rules = <<>>
    /\ \E keyword \in CaseKeywords, match_type \in CaseKinds,
          case_sensitive \in BOOLEAN :
         db_rules' = save_auto_reply_rule(<<>>, AccountUid,
             [keyword |-> keyword, reply_content |-> "reply",
              match_type |-> match_type, case_sensitive |-> case_sensitive,
              priority |-> 0], TRUE)
    /\ mres' = NoCall
    /\ UNCHANGED matchFrame

\* MessageManager.match_auto_reply(message_text)
MatchCaseCall ==
    /\ \E text \in CaseTexts :
         mres' = [called |-> TRUE, text |-> text,
                  result |-> match_auto_reply(db_rules, text)]
    /\ UNCHANGED <<matchFrame, db_rules>>

NextCase == SaveCaseRule \/ MatchCaseCall

CaseSpec == InitCase /\ [][NextCase]_vars

----------------------------------------------------------------------------
(* The engine with a window attached: the window hands its log function to *)
(* the manager once, when it is built (gui/message_window.py, line 100).   *)

\* MessageManager.set_gui_log_callback
set_gui_log_callback ==
    /\ sink.callback = "none"
    /\ \E callback \in {"ok", "raises"} :
         sink' = [sink EXCEPT !.callback = callback]
    /\ UNCHANGED <<engineVars, confVars, today_reply_count, dedupVars, dbVars,
                   now, worker, ctl, sent, hist, mres, statVars>>

InitSink ==
    /\ InitWith(InitRules)
    /\ db_config = NoRow
    /\ db_stats = NoRow

NextSink == set_gui_log_callback \/ Next

SinkSpec == InitSink /\ [][NextSink]_vars

----------------------------------------------------------------------------
(* The statistics on their own: replies are logged through the database,   *)
(* the clock moves on, and a manager is constructed on the database as it  *)
(* is, which computes its today counter from the stored row.               *)

MaxReplies == 3        \* calls of log_auto_reply
MaxDrift   == 6        \* seconds the clock moves on from Now0

\* AutoReplyDatabase._update_stats at time t: the row after the UPDATE, or
\* the row the INSERT creates
_update_stats(stats, t) ==
    IF stats # NoRow
    THEN [total_replies |-> stats.total_replies + 1,
          today_replies |->
              (IF stats.last_update_date # DateOf(t) THEN 0
               ELSE stats.today_replies) + 1,
          last_update_date |-> DateOf(t)]
    ELSE [total_replies |-> 1, today_replies |-> 1,
          last_update_date |-> DateOf(t)]

\* AutoReplyDatabase.log_auto_reply: the INSERT into auto_reply_logs
log_auto_reply(logs, sender_uid, received_message, reply_message, t) ==
    Append(logs, [account_uid |-> AccountUid, sender_uid |-> sender_uid,
                  received_message |-> received_message,
                  reply_message |-> reply_message, created_time |-> t])

statsFrame ==
    <<engineVars, confVars, dedupVars, db_rules, db_config, worker, ctl, sent,
      hist, mres, sink>>

InitStatsRun ==
    /\ InitWith(<<>>)
    /\ db_config = NoRow

\* A call of AutoReplyDatabase.log_auto_reply for the account
LogAutoReply ==
    /\ Len(db_logs) < MaxReplies
    /\ db_logs' = log_auto_reply(db_logs, "p1", Cat, "reply-B", now)
    /\ db_stats' = _update_stats(db_stats, now)
    /\ UNCHANGED <<statsFrame, today_reply_count, count_date, now>>

\* Time passes
Tick ==
    /\ now < Now0 + MaxDrift
    /\ \E t \in (now + 1)..(Now0 + MaxDrift) : now' = t
    /\ UNCHANGED <<statsFrame, today_reply_count, count_date, db_stats,
                   db_logs>>

\* MessageManager.__init__, lines 58-59: the today counter of a manager
\* constructed now
Construct ==
    /\ today_reply_count' = TodayCount(db_stats, now)
    /\ count_date' = DateOf(now)
    /\ UNCHANGED <<statsFrame, db_stats, db_logs, now>>

NextStats == LogAutoReply \/ Tick \/ Construct

StatsSpec == InitStatsRun /\ [][NextStats]_vars

----------------------------------------------------------------------------
(* Two accounts on one database file, each with a MessageManager of its    *)
(* own.  Here processed_messages and replied_messages hold the sets of     *)
(* each manager (created in __init__, lines 62-63), and db_config and      *)
(* db_stats hold the row of each account (both tables are UNIQUE on        *)
(* account_uid), NoRow for an account without one.                         *)

MaxRows   == 2         \* rows of auto_reply_rules in these runs
MaxLogged == 2         \* calls of log_auto_reply in these runs

Accounts == {AccountUid, OtherUid}

\* INSERT OR REPLACE INTO account_configs: the row of the account replaced
SqlReplaceConfig(table, account_uid, row) ==
    [table EXCEPT ![account_uid] = row]

\* _update_stats(cursor, account_uid, current_time): SELECT, then UPDATE or
\* INSERT, each with the account_uid of the call
SqlUpdateStats(table, account_uid, t) ==
    [table EXCEPT ![account_uid] = _update_stats(table[account_uid], t)]

\* The record of a call made by the manager of an account
Acted(account_uid) ==
    [called |-> TRUE, text |-> <<>>, result |-> [account_uid |-> account_uid]]

accountsFrame ==
    <<engineVars, confVars, today_reply_count, now, worker, ctl, sent, hist,
      count_date, sink>>

InitAccounts ==
    /\ auto_reply_enabled = FALSE
    /\ stop_listening = FALSE
    /\ listening_thread = 0
    /\ daily_limit = load_account_config(NoRow).daily_limit
    /\ scan_interval = load_account_config(NoRow).scan_interval
    /\ reply_delay_min = load_account_config(NoRow).reply_delay_min
    /\ reply_delay_max = load_account_config(NoRow).reply_delay_max
    /\ today_reply_count = 0
    /\ processed_messages = [a \in Accounts |-> {}]
    /\ replied_messages = [a \in Accounts |-> {}]
    /\ db_rules = save_auto_reply_rule(
                      save_auto_reply_rule(<<>>, AccountUid, RuleB, TRUE),
                      OtherUid, RuleA, TRUE)
    /\ db_config = [a \in Accounts |-> NoRow]
    /\ db_stats = [a \in Accounts |-> NoRow]
    /\ now = Now0
    /\ worker = [t \in Threads |-> Unborn]
    /\ ctl = [pc |-> "idle", last |-> "none", stops |-> 0]
    /\ sent = <<>>
    /\ hist = [k \in Keys |-> NoHist]
    /\ mres = NoCall
    /\ db_logs = <<>>
    /\ count_date = DateOf(Now0)
    /\ sink = NoSink

\* Lines 739-747 in the worker of an account: an identity is inserted
AcctProcess(uid) ==
    /\ \E m \in {Inbox(1)[1]} :
         processed_messages' \in
            {[processed_messages EXCEPT ![uid] = p] :
                p \in AfterCleanup(processed_messages[uid] \cup {MsgId(m)})}
    /\ mres' = Acted(uid)
    /\ UNCHANGED <<accountsFrame, replied_messages, dbVars, db_logs>>

\* MessageManager.save_account_config of an account
AcctSaveConfig(uid) ==
    /\ \E enabled \in BOOLEAN :
         db_config' = SqlReplaceConfig(db_config, uid,
                                       ConfigRow(enabled, 2, 8, 100, 8))
    /\ mres' = Acted(uid)
    /\ UNCHANGED <<accountsFrame, dedupVars, db_rules, db_stats, db_logs>>

\* AutoReplyDatabase.log_auto_reply for an account
AcctLogReply(uid) ==
    /\ Len(db_logs) < MaxLogged
    /\ db_logs' = Append(db_logs,
                         [log_auto_reply(<<>>, "p1", Cat, "reply-B", now)[1]
                             EXCEPT !.account_uid = uid])
    /\ db_stats' = SqlUpdateStats(db_stats, uid, now)
    /\ mres' = Acted(uid)
    /\ UNCHANGED <<accountsFrame, dedupVars, db_rules, db_config>>

\* add_auto_reply_rule, update_auto_reply_rule, delete_auto_reply_rule and
\* toggle_rule_status of an account, with any rule id of the table.  A new
\* row gets an id that no row has (AUTOINCREMENT).
AcctRule(uid) ==
    /\ \/ /\ Len(db_rules) < MaxRows
          /\ \A i \in 1..Len(db_rules) : db_rules[i].id <= Len(db_rules)
          /\ \E enabled \in BOOLEAN :
               db_rules' = save_auto_reply_rule(db_rules, uid, RuleA, enabled)
       \/ \E i \in 1..Len(db_rules), enabled \in BOOLEAN :
            db_rules' = SqlUpdateRule(db_rules, uid, db_rules[i].id, RuleA,
                                      enabled)
       \/ \E i \in 1..Len(db_rules) :
            db_rules' = delete_auto_reply_rule(db_rules, uid, db_rules[i].id)
       \/ \E i \in 1..Len(db_rules) :
            db_rules' = toggle_rule_status(db_rules, uid, db_rules[i].id)
    /\ mres' = Acted(uid)
    /\ UNCHANGED <<accountsFrame, dedupVars, db_config, db_stats, db_logs>>

NextAccounts ==
    \E uid \in Accounts :
        \/ AcctProcess(uid)
        \/ AcctSaveConfig(uid)
        \/ AcctLogReply(uid)
        \/ AcctRule(uid)

AccountsSpec == InitAccounts /\ [][NextAccounts]_vars

----------------------------------------------------------------------------
(* Properties                                                              *)

AliveCount == Cardinality({t \in Threads : is_alive(t)})

MsgOf(k) == CHOOSE m \in AllMsgs : m.msg_seqno = k

SendsFor(k) == {i \in 1..Len(sent) : sent[i].key = k}

\* A worker is inside the delivery stage for message k
Delivering(k) ==
    \E t \in Threads :
        /\ worker[t].pc = "deliver"
        /\ worker[t].messages[worker[t].mi].msg_seqno = k

\* C1: a message that passed every gate (text, foreign sender, fresh, not yet
\* processed, matching an enabled rule, daily limit not reached) has, once
\* the worker has gone on from it, caused a send_message call to its peer
\* carrying the reply_content of the matched rule.
C1_Delivery ==
    \A k \in Keys :
        (hist[k].delivers > 0 /\ ~Delivering(k)) =>
            \E i \in SendsFor(k) :
                /\ sent[i].receiver_id = MsgOf(k).talker_id
                /\ sent[i].content = "reply-B"

\* C2: no message identity enters the delivery stage, and none is the subject
\* of a send_message call, more than once, however often the message is
\* fetched again.
C2_AtMostOnce ==
    \A k \in Keys :
        /\ hist[k].passes <= 1
        /\ hist[k].delivers <= 1
        /\ Cardinality(SendsFor(k)) <= hist[k].delivers

\* A message that entered the delivery stage was fetched and run through the
\* pipeline again
C2_Witness ==
    \E k \in Keys : hist[k].delivers = 1 /\ hist[k].seen >= 2

\* C3: with daily_limit = 1 and the counter at 0, once the two qualifying
\* messages 11 and 12 have both been handled on the starting date (every
\* send succeeding), exactly one of them was replied to successfully and
\* exactly one was limited.
C3_DailyLimitScenario ==
    ( /\ daily_limit = 1
      /\ db_stats = NoRow
      /\ DateOf(now) = DateOf(Now0)
      /\ \A k \in {11, 12} : hist[k].passes = 1 /\ ~Delivering(k)
      /\ \A i \in 1..Len(sent) : sent[i].success )
    => /\ Cardinality({i \in 1..Len(sent) : sent[i].key \in {11, 12}}) = 1
       /\ hist[11].limited + hist[12].limited = 1

\* C4: at most one worker thread is alive; as long as stop has not been
\* called, every start call after the first changes nothing: thread 1, the
\* one the first call spawned, is the only thread ever started, it is alive
\* and the flags are as the first call left them.
C4_StartIdempotent ==
    /\ AliveCount <= 1
    /\ (ctl.stops = 0 /\ ctl.last # "none") =>
          /\ AliveCount = 1
          /\ listening_thread = 1 /\ is_alive(1)
          /\ \A t \in Threads \ {1} : worker[t].pc = "unborn"
          /\ auto_reply_enabled /\ ~stop_listening

\* start was called while the worker was running
C4_Witness == ctl.stops = 0 /\ ctl.last = "start_noop" /\ worker[1].polls > 0

\* C5: when a start call made after a stop call has returned, a worker is
\* alive with the enabled flag set and the cancellation flag clear.
C5_Restart ==
    (ctl.stops > 0 /\ ctl.last \in {"start_noop", "start_spawn"}) =>
        /\ AliveCount >= 1
        /\ auto_reply_enabled /\ ~stop_listening

\* C6: a stop call that waits in join returns, and once the cancellation flag
\* is set the worker thread terminates.
C6_Stop ==
    /\ (ctl.pc = "joining") ~> (ctl.pc = "idle")
    /\ stop_listening ~> (AliveCount = 0)

\* stop returned on the join timeout and the worker has terminated since
C6_Witness == ctl.last = "stop_timeout" /\ worker[1].pc = "done"

\* C7: a worker thread has terminated only if stop was called.
C7_OnlyStopTerminates ==
    \A t \in Threads : worker[t].pc = "done" => ctl.stops > 0

\* A worker has polled again after the 10-second sleep that follows a
\* failure and has caught an exception while processing a message, with no
\* stop call
C7_Witness ==
    \E t \in Threads, k \in Keys :
        /\ is_alive(t)
        /\ worker[t].polls >= 2
        /\ worker[t].sleep = FallbackSleep
        /\ hist[k].errors > 0
        /\ ctl.stops = 0

\* C8: no message that is more than 86400 seconds older than the current
\* time of the cycle is in the delivery stage, and the message stamped
\* now - 90000 is never added to the processed set, matched or sent to.
C8_AgeGate ==
    /\ \A t \in Threads :
          worker[t].pc = "deliver" =>
              worker[t].current_time
                - worker[t].messages[worker[t].mi].timestamp <= DaySeconds
    /\ hist[22].passes = 0 /\ hist[22].matched = 0 /\ SendsFor(22) = {}

\* The 25h-old message, which matches rule B, was seen for the first time,
\* and the message that was exactly 24h old at start-up was seen in a later
\* cycle
C8_Witness ==
    /\ hist[22].seen > 0
    /\ hist[23].seen > 0 /\ hist[23].passes = 0
    /\ \E t \in Threads : worker[t].current_time > Now0

\* The rule's predicate is true of the text
Predicate(rule, text) ==
    /\ Strip(rule.keyword) # <<>>
    /\ ~RuleRaises(rule)
    /\ RuleMatched(rule, text)

\* The enabled rules of the account whose predicate is true
Eligible(table, text) ==
    {i \in 1..Len(table) :
        /\ table[i].account_uid = AccountUid
        /\ table[i].enabled
        /\ Predicate(table[i], text)}

\* Rule i is preferred to rule j: higher priority, or created first
Preferred(table, i, j) ==
    \/ table[i].priority > table[j].priority
    \/ table[i].priority = table[j].priority /\ i < j

\* C9: match_auto_reply returns the enabled rule with a true predicate that
\* is preferred to every other such rule (higher priority, or equal priority
\* and created earlier), and None when there is none; with A (priority 5,
\* contains "a") and B (priority 10, exact "cat") the text "cat" gives B.
C9_PriorityResolution ==
    mres.called =>
        LET E == Eligible(db_rules, mres.text)
        IN  /\ IF E = {} THEN mres.result = NoMatch
               ELSE \E i \in E :
                      /\ \A j \in E \ {i} : Preferred(db_rules, i, j)
                      /\ mres.result # NoMatch
                      /\ mres.result.rule_id = db_rules[i].id
                      /\ mres.result.reply_content = db_rules[i].reply_content
            /\ (db_rules = InitRules /\ mres.text = Cat) =>
                  mres.result # NoMatch /\ mres.result.rule_id = 2

\* A call where a disabled rule of the account with a true predicate is
\* preferred to the rule returned, and two rules of equal priority qualify
C9_Witness ==
    /\ mres.called /\ mres.result # NoMatch
    /\ \E i \in 1..Len(db_rules) :
          /\ db_rules[i].account_uid = AccountUid /\ ~db_rules[i].enabled
          /\ Predicate(db_rules[i], mres.text)
          /\ db_rules[i].priority > mres.result.priority
    /\ \E i, j \in Eligible(db_rules, mres.text) :
          i # j /\ db_rules[i].priority = db_rules[j].priority

\* C10: a message enters the delivery stage only while the daily limit is
\* not reached (daily_limit = 0, or the counter below daily_limit), and it is
\* turned away as limited only while daily_limit > 0 and the counter has
\* reached it.
C10_DailyLimitGate ==
    [][\A k \in Keys :
          /\ hist'[k].delivers > hist[k].delivers =>
                ~(daily_limit > 0 /\ today_reply_count >= daily_limit)
          /\ hist'[k].limited > hist[k].limited =>
                (daily_limit > 0 /\ today_reply_count >= daily_limit)]_vars

\* A message was turned away by the limit
C10_Witness == \E k \in Keys : hist[k].limited > 0 /\ hist[k].delivers = 0

\* C11: a message is turned away by the daily limit only when the replies
\* counted for the current calendar date reach daily_limit: a counter that
\* reached the limit on an earlier date has been reset by then.
C11_CounterReset ==
    [][\A k \in Keys :
          hist'[k].limited > hist[k].limited =>
              TodayCount(db_stats, now) >= daily_limit]_vars

\* The replies the stored row counts for date d
CountedFor(stats, d) ==
    IF stats # NoRow /\ stats.last_update_date = d THEN stats.today_replies
    ELSE 0

\* C12: the today counter in memory and the one in auto_reply_stats are never
\* negative, and no step that stays on one calendar date makes the replies
\* counted for that date smaller (the stored row counts for the date it
\* carries, the counter in memory for the date it was computed on).
C12_CounterInvariant ==
    /\ [](/\ today_reply_count >= 0
          /\ db_stats # NoRow => db_stats.today_replies >= 0)
    /\ [][DateOf(now') = DateOf(now) =>
            /\ CountedFor(db_stats', DateOf(now))
                 >= CountedFor(db_stats, DateOf(now))
            /\ (count_date = DateOf(now) /\ count_date' = count_date) =>
                 today_reply_count' >= today_reply_count]_vars

\* Replies were counted before and after a change of date, and a manager
\* constructed after it holds the count of the new date
C12_Witness ==
    /\ db_stats # NoRow
    /\ db_stats.last_update_date > DateOf(Now0)
    /\ db_stats.today_replies >= 2
    /\ db_stats.total_replies > db_stats.today_replies
    /\ count_date = db_stats.last_update_date
    /\ today_reply_count = db_stats.today_replies

\* C13: the processed set never holds more than 1000 identities (the
\* insertion and the cleanup are one step, made with the message lock held,
\* so no state lies between them).
C13_DedupBound == Cardinality(processed_messages) <= ProcessedCap

\* The set went over 1000 and the cleanup took 500 identities out
C13_Witness ==
    /\ Cardinality(processed_messages) = ProcessedCap + 1 - CleanupBatch
    /\ \E k \in Keys : hist[k].passes > 0

\* C14: no exception raised by the log callback leaves
\* _log_with_management, and once the callback has raised a worker thread
\* has still terminated only if stop was called.
C14_BrokenSink ==
    /\ ~sink.escaped
    /\ sink.raised => \A t \in Threads : worker[t].pc = "done" => ctl.stops > 0

\* The callback has raised, and the worker, in a later cycle and with no stop
\* call, has taken the message it was logging about to the delivery stage
C14_Witness ==
    \E t \in Threads :
        /\ sink.raised
        /\ worker[t].pc = "deliver"
        /\ worker[t].polls >= 2
        /\ ctl.stops = 0

\* The enabled rules of the account whose evaluation raises
Malformed(table) ==
    {i \in 1..Len(table) :
        /\ table[i].account_uid = AccountUid
        /\ table[i].enabled
        /\ Strip(table[i].keyword) # <<>>
        /\ RuleRaises(table[i])}

\* C15: a rule whose evaluation raises is never returned and does not end
\* the matching: if some enabled rule evaluates to a match, the call returns
\* the first of them, also when malformed rules come before it.
C15_MalformedRule ==
    (mres.called /\ Malformed(db_rules) # {}) =>
        /\ mres.result # NoMatch => mres.result.rule_id \notin Malformed(db_rules)
        /\ Eligible(db_rules, mres.text) # {} =>
              /\ mres.result # NoMatch
              /\ mres.result.rule_id \in Eligible(db_rules, mres.text)
              /\ \A j \in Eligible(db_rules, mres.text) \ {mres.result.rule_id} :
                    Preferred(db_rules, mres.result.rule_id, j)

\* A rule was returned that comes after a malformed regex rule
C15_Witness ==
    /\ mres.called /\ mres.result # NoMatch
    /\ \E i \in Malformed(db_rules) :
          Preferred(db_rules, i, mres.result.rule_id)

\* The text with its capital letters replaced by small ones
Fold(s) ==
    [i \in 1..Len(s) |->
        IF s[i] = "H" THEN "h" ELSE IF s[i] = "I" THEN "i" ELSE s[i]]

\* The relation a match kind stands for, between a text and a keyword
KindHolds(kind, text, keyword) ==
    CASE kind = "exact"      -> Strip(text) = Strip(keyword)
      [] kind = "contains"   ->
           \E i \in 1..Len(text), j \in 0..Len(text) :
               i <= j + 1 /\ SubSeq(text, i, j) = keyword
      [] kind = "startswith" -> SubSeq(text, 1, Len(keyword)) = keyword
      [] kind = "endswith"   ->
           SubSeq(text, Len(text) - Len(keyword) + 1, Len(text)) = keyword

\* C16: the one rule of the account is returned exactly when its match kind
\* holds between text and keyword, compared unchanged when the rule is
\* case-sensitive and with capitals folded when it is not; keyword "Hi" with
\* kind contains matches "hi there" exactly when the rule is not
\* case-sensitive.
C16_CaseSensitivity ==
    (mres.called /\ Len(db_rules) = 1) =>
        LET rule == db_rules[1]
        IN  /\ mres.result # NoMatch <=>
                  IF rule.case_sensitive
                  THEN KindHolds(rule.match_type, mres.text, rule.keyword)
                  ELSE KindHolds(rule.match_type, Fold(mres.text),
                                 Fold(rule.keyword))
            /\ ( /\ rule.keyword = Hi
                 /\ rule.match_type = "contains"
                 /\ mres.text = HiThere )
               => (mres.result # NoMatch <=> ~rule.case_sensitive)

\* Keyword "Hi", kind contains, not case-sensitive, matched "hi there"
C16_Witness ==
    /\ mres.called /\ Len(db_rules) = 1
    /\ db_rules[1].keyword = Hi /\ db_rules[1].match_type = "contains"
    /\ ~db_rules[1].case_sensitive
    /\ mres.text = HiThere
    /\ mres.result # NoMatch

Lifetime(stats) == IF stats # NoRow THEN stats.total_replies ELSE 0

Attempts == {k \in Keys : hist[k].delivers > 0 /\ ~Delivering(k)}

\* C20: auto_reply_logs holds one entry for each delivery attempt that has
\* ended.
C20_ReplyLogging == Len(db_logs) = Cardinality(Attempts)

C22_LimitedMessage ==
    \A k \in Keys :
        hist[k].limited > 0 =>
            /\ MsgId(MsgOf(k)) \notin replied_messages
            /\ MsgId(MsgOf(k)) \in processed_messages
            /\ hist[k].matched <= 1
            /\ hist[k].delivers = 0

\* C23: the cleanup of a processed set that went over 1000 takes out the 500
\* identities inserted first, and the identity whose insertion started the
\* cleanup stays in the set.
C23_EvictionOrder ==
    [][Cardinality(processed_messages') < Cardinality(processed_messages) =>
          /\ processed_messages \ processed_messages' = Backlog(CleanupBatch)
          /\ \A k \in Keys :
                hist'[k].passes > hist[k].passes =>
                    MsgId(MsgOf(k)) \in processed_messages']_vars

\* C24: of two threads that handle the same message at the same time on one
\* manager at most one holds the message lock, and at most one passes the
\* membership test and goes on to insert, match and deliver.
C24_AtomicGate ==
    /\ Cardinality({t \in Threads : worker[t].pc = "locked"}) <= 1
    /\ \A k \in Keys :
          /\ hist[k].passes <= 1
          /\ hist[k].matched <= 1
          /\ hist[k].delivers <= 1

\* One thread is inside the lock with a message that the other thread is
\* about to test, and a message has been through the gate in both threads
C24_Witness ==
    /\ \E t, u \in Threads :
          /\ worker[t].pc = "locked"
          /\ worker[u].pc = "process"
          /\ worker[t].messages[worker[t].mi] =
                worker[u].messages[worker[u].mi]
    /\ \E k \in Keys : hist[k].seen = 2 /\ hist[k].passes = 1

C26_EligibilityGate ==
    \A k \in Keys :
        (MsgOf(k).sender_uid = AccountUid \/ MsgOf(k).msg_type # 1) =>
            /\ hist[k].passes = 0
            /\ hist[k].matched = 0
            /\ hist[k].delivers = 0
            /\ SendsFor(k) = {}

\* The worker has run the pipeline on the message of the account itself and
\* on the image message, whose texts match an enabled rule
C26_Witness ==
    /\ hist[21].seen > 0
    /\ hist[14].seen > 0
    /\ \E k \in Keys : hist[k].matched > 0

\* C27: an exception raised while the messages of a session are handled, or
\* a failed fetch of its messages, does not end the scan cycle while
\* sessions of the scan set remain: the worker does not go from the
\* handling of that session to the sleep between cycles.
C27_FailureIsolation ==
    [][\A t \in Threads :
          (/\ worker[t].pc \in {"get_messages", "process", "locked", "deliver"}
           /\ worker[t].si < Min2(20, Len(worker[t].sessions))
           /\ ~(stop_listening \/ ~auto_reply_enabled)) =>
              worker'[t].pc # "sleep"]_vars

\* The cancellation as stop_auto_reply_listener requests it
StopRequested == stop_listening \/ ~auto_reply_enabled

\* C28: a worker that is at a check point (the top of the loop, the head of
\* the session loop, the head of the message loop) while the cancellation
\* is requested starts no get_sessions call, no get_session_messages call
\* and no run of the pipeline (match, delivery) from there, and the request
\* stands for as long as the thread lives, so none is started afterwards.
C28_CancellationPoints ==
    [][\A t \in Threads :
          /\ (StopRequested /\ worker[t].pc \in
                  {"loop", "next_session", "next_message"}) =>
                /\ worker'[t].pc \notin {"get_sessions", "get_messages",
                                         "process", "locked", "deliver"}
                /\ sent' = sent
                /\ mres' = mres
          /\ (StopRequested /\ is_alive(t)) => StopRequested']_vars

\* The worker has left the message loop with messages of the session still
\* to handle, the cancellation being requested
C28_Witness ==
    \E t \in Threads :
        /\ StopRequested
        /\ worker[t].pc = "next_session"
        /\ worker[t].mi >= 1
        /\ worker[t].mi <= Len(worker[t].messages)

\* C29: the sleep that follows the return of get_sessions is the configured
\* scan interval when the list is empty, and the 10 seconds of the fallback
\* only when the fetch failed.
C29_SleepSelection ==
    [][\A t \in Threads :
          (worker[t].pc = "get_sessions" /\ worker'[t].pc = "sleep") =>
              worker'[t].sleep \in {scan_interval, 10}]_vars

\* C30: in a cycle the worker fetches the messages of sessions at the
\* positions 1 to 20 of the session list only, each position once and in
\* the order of the list, however long the list is.
C30_ScanCap ==
    /\ [](\A t \in Threads :
            worker[t].pc \in {"get_messages", "next_message", "process",
                              "locked", "deliver"} =>
                /\ worker[t].si >= 1
                /\ worker[t].si <= 20
                /\ worker[t].si <= Len(worker[t].sessions))
    /\ [][\A t \in Threads :
             (worker[t].pc = "get_messages" /\ worker'[t].pc = "next_session")
                 => worker'[t].si = worker[t].si + 1]_vars

\* A cycle over a list of 21 sessions has ended: messages of session 2 were
\* handled, the worker sleeps, and the last session was not fetched
C30_Witness ==
    \E t \in Threads :
        /\ worker[t].pc = "sleep"
        /\ worker[t].sleep = scan_interval
        /\ Len(worker[t].sessions) = 21
        /\ worker[t].si = 21
        /\ hist[22].seen > 0
        /\ \A k \in {11, 12, 13, 14} : hist[k].seen = 0

C33_ConcurrentStart == Cardinality({t \in Threads : is_alive(t)}) <= 1

\* C34: a message identity reaches the rule matcher at most once: once the
\* identity of a message has been inserted, the message is never inserted,
\* matched or taken to the delivery again, whatever rules are added or
\* enabled afterwards (no cleanup of the processed set taking place).
C34_DecideOnce ==
    /\ [](\A k \in Keys : hist[k].passes <= 1)
    /\ [][\A k \in Keys :
             hist[k].passes >= 1 =>
                 /\ hist'[k].passes = hist[k].passes
                 /\ hist'[k].matched = hist[k].matched
                 /\ hist'[k].delivers = hist[k].delivers
                 /\ (mres' # mres /\ mres'.called) =>
                        \E j \in Keys : hist'[j].passes > hist[j].passes]_vars

\* Message 11 matched no rule when it was first handled, a rule that matches
\* its text is enabled now, and the worker, in its second cycle, has just
\* run the pipeline on the message again without matching it
C34_Witness ==
    /\ hist[11].passes = 1
    /\ hist[11].matched = 0
    /\ hist[11].seen = 2
    /\ match_auto_reply(db_rules, Cat) # NoMatch
    /\ mres = NoCall
    /\ \E t \in Threads :
          /\ worker[t].polls = 2
          /\ worker[t].pc = "next_message"
          /\ worker[t].mi = 2

\* C35: when the worker leaves the locked block for a message that passed
\* the membership and age tests, the identity of that message is in the
\* processed set: the cleanup does not remove the identity just inserted.
C35_MemberAfterGate ==
    [][\A t \in Threads :
          (worker[t].pc = "locked" /\ worker'[t].pc # "locked") =>
              MsgId(worker[t].messages[worker[t].mi])
                  \in processed_messages']_vars

\* C36: an identity enters the processed set only for a message of another
\* sender, of type text, not older than 24 hours at the time of the cycle,
\* so the set holds identities of such messages only; and the step that
\* skips a message (own, not text, already processed, stale) leaves the
\* processed and the replied set as they are.
C36_ProcessedContent ==
    /\ [](\A id \in processed_messages :
            \E m \in AllMsgs :
                /\ id = MsgId(m)
                /\ m.sender_uid # AccountUid
                /\ m.msg_type = 1)
    /\ [][/\ \A m \in AllMsgs :
               (MsgId(m) \notin processed_messages
                /\ MsgId(m) \in processed_messages') =>
                   \E t \in Threads :
                       /\ worker[t].pc = "locked"
                       /\ worker[t].messages[worker[t].mi] = m
                       /\ worker[t].current_time - m.timestamp <= 86400
          /\ \A t \in Threads :
               (worker[t].pc = "process" /\ worker'[t].pc = "next_message") =>
                   /\ processed_messages' = processed_messages
                   /\ replied_messages' = replied_messages]_vars

\* The worker has skipped its own message, the image and the message older
\* than 24 hours, and has inserted the identity of another message
C36_Witness ==
    /\ hist[21].seen > 0
    /\ hist[14].seen > 0
    /\ hist[22].seen > 0
    /\ MsgId(MsgOf(22)) \notin processed_messages
    /\ MsgId(MsgOf(21)) \notin processed_messages
    /\ processed_messages # {}

\* C37: a live worker whose cancellation is not requested always goes on to
\* start another poll cycle (another get_sessions call), whatever the fetches
\* of the cycle it is in return and whatever errors its messages raise.
C37_PollingProgress ==
    \A t \in Threads : \A n \in 0..(MaxPolls - 1) :
        (is_alive(t) /\ ~StopRequested /\ worker[t].polls = n)
            ~> (worker[t].polls > n \/ StopRequested)

\* The worker has started its second cycle after the 10 seconds of the
\* fallback sleep, or after a cycle in which a delivery raised
C37_Witness ==
    \E t \in Threads :
        /\ worker[t].polls = 2
        /\ worker[t].pc = "get_sessions"
        /\ \/ worker[t].sleep = 10
           \/ \E k \in Keys : hist[k].errors > 0

\* C38: update_auto_reply_rule returns True only if a rule with the given
\* id belonging to the account was in the table and has been updated; for an
\* id that is not in the table, or that belongs to another account, it
\* returns False and leaves the table as it was.
C38_UpdateResult ==
    [][mres'.called =>
          LET call    == mres'.result
              existed == \E i \in 1..Len(db_rules) :
                            /\ db_rules[i].id = call.rule_id
                            /\ db_rules[i].account_uid = AccountUid
          IN  /\ call.updated => existed
              /\ ~existed => (~call.updated /\ db_rules' = db_rules)]_vars

\* The rows of an account in auto_reply_rules
RulesOf(table, uid) == SelectSeq(table, LAMBDA r : r.account_uid = uid)

\* C32: an operation made for one account (an identity inserted, the
\* configuration saved, a reply logged, a rule saved, updated, deleted or
\* toggled) leaves the processed and replied sets, the rules, the
\* configuration row and the statistics row of every other account as they
\* were.
C32_AccountIsolation ==
    [][\A other \in Accounts :
          other # mres'.result.account_uid =>
              /\ processed_messages'[other] = processed_messages[other]
              /\ replied_messages'[other] = replied_messages[other]
              /\ RulesOf(db_rules', other) = RulesOf(db_rules, other)
              /\ db_config'[other] = db_config[other]
              /\ db_stats'[other] = db_stats[other]]_vars

\* Both accounts have a configuration row, a statistics row, a processed
\* identity and a rule, and the last call was made for the other account
\* after the account's own rule had been changed
C32_Witness ==
    /\ \A a \in Accounts :
          /\ db_config[a] # NoRow
          /\ db_stats[a] # NoRow
          /\ processed_messages[a] # {}
          /\ RulesOf(db_rules, a) # <<>>
    /\ mres = Acted(OtherUid)
    /\ \E i \in 1..Len(db_rules) :
          db_rules[i].account_uid = AccountUid /\ ~db_rules[i].enabled

====
